---- MODULE Spec2Model ----
(***************************************************************************)
(* Two programs of the repository.                                         *)
(*                                                                         *)
(*  1. Creational/ExtensibleFactory/ExtensibleFactory.cpp: the registry    *)
(*     GameObjectFactory (a std::map from type name to creation callback), *)
(*     the loader loop of main() that fills gameObjectCollection from the  *)
(*     lines of level1.txt, and the Update/Render pass over it.            *)
(*     Specification: Spec.                                                *)
(*                                                                         *)
(*  2. Creational/Singleton/MultithreadedSingleton.cpp: GetInstance under  *)
(*     a mutex, called by the threads ThreadFoo and ThreadBar.             *)
(*     Specification: SingletonSpec.                                       *)
(***************************************************************************)
EXTENDS Integers, Sequences, FiniteSets, TLC

VARIABLES
    s_Objects,        \* GameObjectFactory::s_Objects, the std::map (a partial function)
    registered,       \* history: per type, the callback of the latest RegisterObject
                      \* not followed by an UnregisterObject, or NotRegistered
    heap,             \* the IGameObject instances allocated so far: heap[p] is the
                      \* dynamic type of the object at address p
    ObjectsCreated,   \* Plane::/Boat::/Ant::ObjectsCreated
    lastCall,         \* the latest call of the factory's public interface made
                      \* before the load, with its return value
    pc,               \* position of main()
    is_open,          \* myFile.is_open()
    lines,            \* history: the lines std::getline returned
    requests,         \* history: the CreateSingleObject calls of the loader loop
    gameObjectCollection,
    it,               \* the range-for iterator of the pass (an index, 1-based)
    trace,            \* history: the virtual calls made by the pass
    cout,             \* what Render wrote
    pinstance_,       \* Singleton::pinstance_
    mutex_,           \* Singleton::mutex_: its owner, or Unlocked
    instances,        \* the Singleton objects constructed: instances[p] is value_
    tpc,              \* position of each thread
    singleton,        \* the local `singleton` of each thread
    lockOrder,        \* history: the threads in the order they acquired mutex_
    mpc,              \* position of the singleton program's main()
    singleton_cout    \* what the singleton program wrote

factoryVars == <<s_Objects, registered, heap, ObjectsCreated, lastCall, pc, is_open,
                 lines, requests, gameObjectCollection, it, trace, cout>>
singletonVars == <<pinstance_, mutex_, instances, tpc, singleton, lockOrder, mpc,
                   singleton_cout>>
vars == <<factoryVars, singletonVars>>

----------------------------------------------------------------------------
(* Bounds *)

MaxLines == 3        \* lines read from level1.txt
MaxApiObjects == 2   \* objects created through the interface before the load

----------------------------------------------------------------------------
(* ExtensibleFactory.cpp: data *)

nullptr == 0

\* the type names a caller passes or a line of the file holds; find() treats
\* every string alike, so "unicorn" stands for any name main() registers nothing for
TypeNames == {"plane", "boat", "unicorn"}

\* the creation callbacks: Plane::Create, Boat::Create, Ant::Create
Callbacks == {"Plane::Create", "Boat::Create", "Ant::Create"}

Variants == {"Plane", "Boat", "Ant"}

NotRegistered == "NotRegistered"

\* the class whose constructor a callback runs
Create(cb) ==
    CASE cb = "Plane::Create" -> "Plane"
      [] cb = "Boat::Create" -> "Boat"
      [] cb = "Ant::Create" -> "Ant"

\* what Render of each class writes
Render(variant) ==
    CASE variant = "Plane" -> "plane"
      [] variant = "Boat" -> "boat"
      [] variant = "Ant" -> "ant"

----------------------------------------------------------------------------
(* std::map operations used by GameObjectFactory *)

\* a map that only inserts: an existing key keeps its value
MapInsertOnly(m, k, v) ==
    IF k \in DOMAIN m THEN m ELSE [x \in DOMAIN m \cup {k} |-> IF x = k THEN v ELSE m[x]]

\* s_Objects[type] = cb
MapAssign(m, k, v) ==
    [x \in DOMAIN m \cup {k} |-> IF x = k THEN v ELSE m[x]]

\* an erase that empties the map
MapClear(m, k) ==
    [x \in {} |-> nullptr]

\* s_Objects.erase(type)
MapErase(m, k) ==
    [x \in DOMAIN m \ {k} |-> m[x]]

\* s_Objects.find(type) != s_Objects.end()
MapFound(m, k) ==
    k \in DOMAIN m

----------------------------------------------------------------------------
(* GameObjectFactory *)

NoCall == [op |-> "none", type |-> "", cb |-> "", result |-> nullptr]

\* `new Plane(0, 0)` and the like: the allocation and the constructor's counter
New(variant) ==
    [result |-> Len(heap) + 1,
     heap |-> Append(heap, variant),
     ObjectsCreated |-> [ObjectsCreated EXCEPT ![variant] = @ + 1]]

\* CreateSingleObject: the callback's object on a hit, nullptr on a miss
CreateSingleObject(type) ==
    IF MapFound(s_Objects, type)
    THEN New(Create(s_Objects[type]))
    ELSE [result |-> nullptr, heap |-> heap, ObjectsCreated |-> ObjectsCreated]

RegisterObject(type, cb) ==
    /\ pc = "setup"
    /\ s_Objects' = MapAssign(s_Objects, type, cb)
    /\ registered' = [registered EXCEPT ![type] = cb]
    /\ lastCall' = [op |-> "Register", type |-> type, cb |-> cb, result |-> nullptr]
    /\ UNCHANGED <<heap, ObjectsCreated, pc, is_open, lines, requests,
                   gameObjectCollection, it, trace, cout>>
    /\ UNCHANGED singletonVars

UnregisterObject(type) ==
    /\ pc = "setup"
    /\ s_Objects' = MapErase(s_Objects, type)
    /\ registered' = [registered EXCEPT ![type] = NotRegistered]
    /\ lastCall' = [op |-> "Unregister", type |-> type, cb |-> "", result |-> nullptr]
    /\ UNCHANGED <<heap, ObjectsCreated, pc, is_open, lines, requests,
                   gameObjectCollection, it, trace, cout>>
    /\ UNCHANGED singletonVars

\* a call of CreateSingleObject by a client, outside the loader loop
CallCreateSingleObject(type) ==
    /\ pc = "setup"
    /\ Len(heap) < MaxApiObjects
    /\ LET r == CreateSingleObject(type) IN
        /\ heap' = r.heap
        /\ ObjectsCreated' = r.ObjectsCreated
        /\ lastCall' = [op |-> "Create", type |-> type, cb |-> "", result |-> r.result]
    /\ UNCHANGED <<s_Objects, registered, pc, is_open, lines, requests,
                   gameObjectCollection, it, trace, cout>>
    /\ UNCHANGED singletonVars

----------------------------------------------------------------------------
(* main(): the loader loop *)

\* a vector constructed with one (null) element
SizedCollection == <<nullptr>>

\* std::vector<IGameObject*> gameObjectCollection;
NewCollection == <<>>

\* a push at the front
push_front(v, e) == <<e>> \o v

\* gameObjectCollection.push_back(object)
push_back(v, e) == Append(v, e)

\* std::ifstream myFile("level1.txt"); if (myFile.is_open())
OpenFile ==
    /\ pc = "setup"
    /\ \E ok \in BOOLEAN :
        /\ is_open' = ok
        /\ pc' = IF ok THEN "load" ELSE "update"
    /\ lastCall' = NoCall
    /\ UNCHANGED <<s_Objects, registered, heap, ObjectsCreated, lines, requests,
                   gameObjectCollection, it, trace, cout>>
    /\ UNCHANGED singletonVars

\* std::getline succeeds with `line`: the loop body
LoadLine(line) ==
    /\ pc = "load"
    /\ Len(lines) < MaxLines
    /\ lines' = Append(lines, line)
    /\ LET r == CreateSingleObject(line) IN
        /\ heap' = r.heap
        /\ ObjectsCreated' = r.ObjectsCreated
        /\ gameObjectCollection' = push_back(gameObjectCollection, r.result)
        /\ requests' = Append(requests,
               [type |-> line, entry |-> registered[line], result |-> r.result])
    /\ UNCHANGED <<s_Objects, registered, lastCall, pc, is_open, it, trace, cout>>
    /\ UNCHANGED singletonVars

\* std::getline fails: end of file
LoadEnd ==
    /\ pc = "load"
    /\ pc' = "update"
    /\ UNCHANGED <<s_Objects, registered, heap, ObjectsCreated, lastCall, is_open,
                   lines, requests, gameObjectCollection, it, trace, cout>>
    /\ UNCHANGED singletonVars

----------------------------------------------------------------------------
(* main(): the pass over gameObjectCollection *)

\* A virtual call through a null pointer is undefined: the process is killed
\* reading the vtable, or the build drops the call and goes on. The call is
\* recorded in the trace either way, with the null pointer as its object.
NullCallOutcomes == {"crashed", "elided"}

\* e->Update();
TickUpdate ==
    /\ pc = "update"
    /\ it <= Len(gameObjectCollection)
    /\ LET e == gameObjectCollection[it] IN
        IF e = nullptr
        THEN \E o \in NullCallOutcomes :
                /\ pc' = IF o = "crashed" THEN "crashed" ELSE "render"
                /\ trace' = Append(trace, [object |-> e, method |-> "Update"])
        ELSE /\ trace' = Append(trace, [object |-> e, method |-> "Update"])
             /\ pc' = "render"
    /\ UNCHANGED <<s_Objects, registered, heap, ObjectsCreated, lastCall, is_open,
                   lines, requests, gameObjectCollection, it, cout>>
    /\ UNCHANGED singletonVars

\* e->Render(); and the loop's increment
TickRender ==
    /\ pc = "render"
    /\ LET e == gameObjectCollection[it] IN
        IF e = nullptr
        THEN \E o \in NullCallOutcomes :
                /\ pc' = IF o = "crashed" THEN "crashed" ELSE "update"
                /\ it' = IF o = "crashed" THEN it ELSE it + 1
                /\ trace' = Append(trace, [object |-> e, method |-> "Render"])
                /\ UNCHANGED cout
        ELSE /\ trace' = Append(trace, [object |-> e, method |-> "Render"])
             /\ cout' = Append(cout, Render(heap[e]))
             /\ it' = it + 1
             /\ pc' = "update"
    /\ UNCHANGED <<s_Objects, registered, heap, ObjectsCreated, lastCall, is_open,
                   lines, requests, gameObjectCollection>>
    /\ UNCHANGED singletonVars

\* the iterator reached end(): return 0
TickEnd ==
    /\ pc = "update"
    /\ it > Len(gameObjectCollection)
    /\ pc' = "done"
    /\ UNCHANGED <<s_Objects, registered, heap, ObjectsCreated, lastCall, is_open,
                   lines, requests, gameObjectCollection, it, trace, cout>>
    /\ UNCHANGED singletonVars

----------------------------------------------------------------------------
(* MultithreadedSingleton.cpp *)

Threads == {"ThreadFoo", "ThreadBar"}

Unlocked == "Unlocked"

\* the argument each thread passes to GetInstance
Value(t) == IF t = "ThreadFoo" THEN "FOO" ELSE "BAR"

Header == "RESULT:"

Newline == "\\n"

\* no mutual exclusion
NoLock == TRUE

\* std::lock_guard<std::mutex> lock(mutex_) can take the mutex
Lockable == mutex_ = Unlocked

\* main: the header is written
MainPrint ==
    /\ mpc = "print"
    /\ singleton_cout' = Append(singleton_cout, Header)
    /\ mpc' = "spawn_t1"
    /\ UNCHANGED <<pinstance_, mutex_, instances, tpc, singleton, lockOrder>>
    /\ UNCHANGED factoryVars

\* std::thread t1(ThreadFoo); std::thread t2(ThreadBar);
MainSpawn ==
    /\ mpc \in {"spawn_t1", "spawn_t2"}
    /\ LET t == IF mpc = "spawn_t1" THEN "ThreadFoo" ELSE "ThreadBar" IN
        tpc' = [tpc EXCEPT ![t] = "sleep"]
    /\ mpc' = IF mpc = "spawn_t1" THEN "spawn_t2" ELSE "join_t1"
    /\ UNCHANGED <<pinstance_, mutex_, instances, singleton, lockOrder, singleton_cout>>
    /\ UNCHANGED factoryVars

\* t1.join(); t2.join(); return 0;
MainJoin ==
    /\ mpc \in {"join_t1", "join_t2"}
    /\ LET t == IF mpc = "join_t1" THEN "ThreadFoo" ELSE "ThreadBar" IN
        tpc[t] = "done"
    /\ mpc' = IF mpc = "join_t1" THEN "join_t2" ELSE "done"
    /\ UNCHANGED <<pinstance_, mutex_, instances, tpc, singleton, lockOrder,
                   singleton_cout>>
    /\ UNCHANGED factoryVars

\* std::this_thread::sleep_for(...) returns
Sleep(t) ==
    /\ tpc[t] = "sleep"
    /\ tpc' = [tpc EXCEPT ![t] = "lock"]
    /\ UNCHANGED <<pinstance_, mutex_, instances, singleton, lockOrder, mpc,
                   singleton_cout>>
    /\ UNCHANGED factoryVars

\* GetInstance: the lock_guard is constructed
Lock(t) ==
    /\ tpc[t] = "lock"
    /\ Lockable
    /\ mutex_' = t
    /\ lockOrder' = Append(lockOrder, t)
    /\ tpc' = [tpc EXCEPT ![t] = "check"]
    /\ UNCHANGED <<pinstance_, instances, singleton, mpc, singleton_cout>>
    /\ UNCHANGED factoryVars

\* GetInstance: if (pinstance_ == nullptr)
Check(t) ==
    /\ tpc[t] = "check"
    /\ tpc' = [tpc EXCEPT ![t] = IF pinstance_ = nullptr THEN "new" ELSE "return"]
    /\ UNCHANGED <<pinstance_, mutex_, instances, singleton, lockOrder, mpc,
                   singleton_cout>>
    /\ UNCHANGED factoryVars

\* GetInstance: pinstance_ = new Singleton(value)
Construct(t) ==
    /\ tpc[t] = "new"
    /\ instances' = Append(instances, Value(t))
    /\ pinstance_' = Len(instances) + 1
    /\ tpc' = [tpc EXCEPT ![t] = "return"]
    /\ UNCHANGED <<mutex_, singleton, lockOrder, mpc, singleton_cout>>
    /\ UNCHANGED factoryVars

\* GetInstance: return pinstance_; (the value returned is read under the lock)
Return(t) ==
    /\ tpc[t] = "return"
    /\ singleton' = [singleton EXCEPT ![t] = pinstance_]
    /\ tpc' = [tpc EXCEPT ![t] = "unlock"]
    /\ UNCHANGED <<pinstance_, mutex_, instances, lockOrder, mpc, singleton_cout>>
    /\ UNCHANGED factoryVars

\* GetInstance: the lock_guard is destroyed
Unlock(t) ==
    /\ tpc[t] = "unlock"
    /\ mutex_' = Unlocked
    /\ tpc' = [tpc EXCEPT ![t] = "print"]
    /\ UNCHANGED <<pinstance_, instances, singleton, lockOrder, mpc, singleton_cout>>
    /\ UNCHANGED factoryVars

\* std::cout << singleton->value()
PrintValue(t) ==
    /\ tpc[t] = "print"
    /\ singleton_cout' = Append(singleton_cout, instances[singleton[t]])
    /\ tpc' = [tpc EXCEPT ![t] = "newline"]
    /\ UNCHANGED <<pinstance_, mutex_, instances, singleton, lockOrder, mpc>>
    /\ UNCHANGED factoryVars

\* ... << "\n"; and the thread function returns
PrintNewline(t) ==
    /\ tpc[t] = "newline"
    /\ singleton_cout' = Append(singleton_cout, Newline)
    /\ tpc' = [tpc EXCEPT ![t] = "done"]
    /\ UNCHANGED <<pinstance_, mutex_, instances, singleton, lockOrder, mpc>>
    /\ UNCHANGED factoryVars

----------------------------------------------------------------------------
(* Specifications *)

Init ==
    /\ s_Objects = [x \in {} |-> nullptr]
    /\ registered = [k \in TypeNames |-> NotRegistered]
    /\ heap = <<>>
    /\ ObjectsCreated = [v \in Variants |-> 0]
    /\ lastCall = NoCall
    /\ pc = "setup"
    /\ is_open = FALSE
    /\ lines = <<>>
    /\ requests = <<>>
    /\ gameObjectCollection = NewCollection
    /\ it = 1
    /\ trace = <<>>
    /\ cout = <<>>
    /\ pinstance_ = nullptr
    /\ mutex_ = Unlocked
    /\ instances = <<>>
    /\ tpc = [t \in Threads |-> "unborn"]
    /\ singleton = [t \in Threads |-> nullptr]
    /\ lockOrder = <<>>
    /\ mpc = "print"
    /\ singleton_cout = <<>>

Next ==
    \/ \E type \in TypeNames, cb \in Callbacks : RegisterObject(type, cb)
    \/ \E type \in TypeNames : UnregisterObject(type)
    \/ \E type \in TypeNames : CallCreateSingleObject(type)
    \/ OpenFile
    \/ \E line \in TypeNames : LoadLine(line)
    \/ LoadEnd
    \/ TickUpdate
    \/ TickRender
    \/ TickEnd

Spec == Init /\ [][Next]_vars

SingletonNext ==
    \/ MainPrint
    \/ MainSpawn
    \/ MainJoin
    \/ \E t \in Threads : Sleep(t)
    \/ \E t \in Threads : Lock(t)
    \/ \E t \in Threads : Check(t)
    \/ \E t \in Threads : Construct(t)
    \/ \E t \in Threads : Return(t)
    \/ \E t \in Threads : Unlock(t)
    \/ \E t \in Threads : PrintValue(t)
    \/ \E t \in Threads : PrintNewline(t)

SingletonSpec == Init /\ [][SingletonNext]_vars

----------------------------------------------------------------------------
(* Vocabulary of the properties *)

\* the objects a collection holds: its non-null pointers, in order
Objects(v) == SelectSeq(v, LAMBDA p : p # nullptr)

\* the loader's requests that found a registered type
Hit(r) == r.entry # NotRegistered

\* the pointers the loader's successful requests returned, in request order
CreatedInOrder ==
    LET hits == SelectSeq(requests, Hit)
    IN  [i \in 1..Len(hits) |-> hits[i].result]

\* Update then Render for each object of s, one object after the other
UpdateThenRender(s) ==
    [i \in 1..(2 * Len(s)) |->
        [object |-> s[(i + 1) \div 2],
         method |-> IF i % 2 = 1 THEN "Update" ELSE "Render"]]

LoadFinished == pc \in {"update", "render", "done", "crashed"}

PassFinished == pc \in {"done", "crashed"}

----------------------------------------------------------------------------
(* Properties *)

\* C1: a Create for a type name without an entry (never registered, or
\* unregistered since its last Register) does not hand a null object back to
\* its caller: the miss is reported as a failure of its own.
C1_CreateMissIsNotNull ==
    /\ (lastCall.op = "Create" /\ registered[lastCall.type] = NotRegistered)
          => lastCall.result # nullptr
    /\ \A i \in DOMAIN requests :
          ~Hit(requests[i]) => requests[i].result # nullptr

\* C2: the load skips every line without a Registry entry: the collection
\* holds no null placeholder and as many elements as there were lines with a
\* registered type name.
C2_LoadSkipsUnknown ==
    /\ \A i \in DOMAIN gameObjectCollection : gameObjectCollection[i] # nullptr
    /\ Len(gameObjectCollection) = Len(SelectSeq(requests, Hit))
    /\ LoadFinished /\ is_open => Len(requests) = Len(lines)

\* C3 (state part): a Create for a registered type name returns a fresh object
\* of the class whose callback the latest Register of that name passed.
C3_CreateUsesLatestInv ==
    /\ (lastCall.op = "Create" /\ registered[lastCall.type] # NotRegistered) =>
          /\ lastCall.result = Len(heap)
          /\ lastCall.result # nullptr
          /\ heap[lastCall.result] = Create(registered[lastCall.type])
    /\ \A i \in DOMAIN requests :
          Hit(requests[i]) =>
              /\ requests[i].result \in DOMAIN heap
              /\ heap[requests[i].result] = Create(requests[i].entry)
              /\ requests[i].entry = registered[requests[i].type]
              /\ \A j \in DOMAIN requests :
                    (j # i /\ Hit(requests[j])) => requests[j].result # requests[i].result

\* C3 (step part): no step changes the class of an object that exists; a
\* Register or Unregister leaves the objects created before it as they are.
C3_ObjectsKeepVariant ==
    \A p \in DOMAIN heap : p \in DOMAIN heap' /\ heap'[p] = heap[p]

\* C3: Create follows the most recent Register (last write wins, distinct
\* names give their own classes), and objects created earlier keep their class.
C3_CreateUsesLatestRegister ==
    []C3_CreateUsesLatestInv /\ [][C3_ObjectsKeepVariant]_vars

\* an object of class Plane made for "plane", then "plane" registered anew with
\* Boat::Create and a second object made for it, of class Boat
C3_Witness ==
    /\ lastCall = [op |-> "Create", type |-> "plane", cb |-> "", result |-> 2]
    /\ heap = <<"Plane", "Boat">>
    /\ DOMAIN s_Objects = {"plane", "unicorn"}
    /\ s_Objects["plane"] = "Boat::Create"
    /\ s_Objects["unicorn"] = "Ant::Create"

\* C4: a step that is Unregister(k) leaves no entry for k, leaves every other
\* entry as it was, changes nothing at all when k had no entry, and raises no
\* error; a Create(k) that follows it invokes no callback and creates nothing.
C4_UnregisterRemovesExactlyK ==
    [][ /\ lastCall'.op = "Unregister" =>
            LET k == lastCall'.type IN
            /\ k \notin DOMAIN s_Objects'
            /\ \A j \in TypeNames \ {k} :
                  /\ (j \in DOMAIN s_Objects') = (j \in DOMAIN s_Objects)
                  /\ j \in DOMAIN s_Objects => s_Objects'[j] = s_Objects[j]
            /\ k \notin DOMAIN s_Objects => s_Objects' = s_Objects
            /\ pc' = pc /\ heap' = heap
        /\ (lastCall.op = "Unregister" /\ lastCall'.op = "Create"
              /\ lastCall'.type = lastCall.type) =>
            /\ lastCall'.result = nullptr
            /\ heap' = heap
            /\ ObjectsCreated' = ObjectsCreated
      ]_vars

\* "plane" had an entry (an object of class Plane exists), Unregister("plane")
\* was the last call, and the entry of "boat" is still there
C4_Witness ==
    /\ lastCall.op = "Unregister" /\ lastCall.type = "plane"
    /\ heap = <<"Plane">>
    /\ DOMAIN s_Objects = {"boat"}
    /\ s_Objects["boat"] = "Boat::Create"

\* C5: the load preserves order: the collection is index-aligned with the lines
\* read, its objects are exactly the objects created for the lines with a
\* registered type name, in the order of those lines, each of the class
\* registered for its line, and all of them distinct.
C5_LoadPreservesOrder ==
    /\ Len(gameObjectCollection) = Len(lines)
    /\ Len(requests) = Len(lines)
    /\ \A i \in DOMAIN lines :
          /\ requests[i].type = lines[i]
          /\ gameObjectCollection[i] = requests[i].result
          /\ Hit(requests[i]) =>
                /\ gameObjectCollection[i] \in DOMAIN heap
                /\ heap[gameObjectCollection[i]] = Create(registered[lines[i]])
    /\ Objects(gameObjectCollection) = CreatedInOrder
    /\ \A i, j \in DOMAIN CreatedInOrder :
          i # j => CreatedInOrder[i] # CreatedInOrder[j]

\* the lines plane, boat, plane gave three distinct objects Plane, Boat, Plane
C5_Witness ==
    /\ pc = "done"
    /\ lines = <<"plane", "boat", "plane">>
    /\ DOMAIN s_Objects = {"plane", "boat"}
    /\ s_Objects["plane"] = "Plane::Create" /\ s_Objects["boat"] = "Boat::Create"
    /\ Len(gameObjectCollection) = 3
    /\ Cardinality({gameObjectCollection[i] : i \in 1..3}) = 3
    /\ [i \in 1..3 |-> heap[gameObjectCollection[i]]] = <<"Plane", "Boat", "Plane">>
    /\ cout = <<"plane", "boat", "plane">>

\* C6: every element of the collection is an object that the callback of a
\* Registry entry, present when the element was requested, created.
C6_CatalogOnlyFactoryResults ==
    \A i \in DOMAIN gameObjectCollection :
        /\ i \in DOMAIN requests
        /\ Hit(requests[i])
        /\ gameObjectCollection[i] \in DOMAIN heap
        /\ heap[gameObjectCollection[i]] = Create(requests[i].entry)

\* C7: the process is never terminated by an error, and the pass never calls
\* Update or Render through an absent (null) element.
C7_NoTerminationNoNullCall ==
    /\ pc # "crashed"
    /\ \A i \in DOMAIN trace : trace[i].object # nullptr

\* C8: when the pass is over, every object of the collection was visited once,
\* in collection order, Update immediately followed by Render for each.
C8_PassVisitsEveryMember ==
    PassFinished => trace = UpdateThenRender(Objects(gameObjectCollection))

\* C9: when the file could not be opened or held no line, the loader made no
\* CreateSingleObject call, the collection is empty, nothing failed, and the
\* pass made no Update and no Render call.
C9_EmptySourceEmptyCatalog ==
    (LoadFinished /\ (~is_open \/ lines = <<>>)) =>
        /\ requests = <<>>
        /\ Len(gameObjectCollection) = 0
        /\ trace = <<>>
        /\ cout = <<>>
        /\ pc # "crashed"

\* types are registered, the file is missing, and main() has returned
C9_Witness ==
    /\ pc = "done"
    /\ ~is_open
    /\ DOMAIN s_Objects = {"plane", "boat"}
    /\ gameObjectCollection = <<>>

\* C10: at most one Singleton is ever constructed, every GetInstance call
\* returns it, its value is the argument of the thread that took the mutex
\* first, and every value written is that value.
C10_OneSingleton ==
    /\ Len(instances) <= 1
    /\ instances # <<>> =>
          /\ pinstance_ = 1
          /\ lockOrder # <<>>
          /\ instances[1] = Value(lockOrder[1])
    /\ \A t \in Threads :
          tpc[t] \in {"unlock", "print", "newline", "done"} =>
              /\ singleton[t] # nullptr
              /\ singleton[t] = pinstance_
    /\ \A i \in DOMAIN singleton_cout :
          singleton_cout[i] \notin {Header, Newline} =>
              singleton_cout[i] = Value(lockOrder[1])

\* ThreadBar took the mutex first and both threads wrote BAR
C10_Witness ==
    /\ mpc = "done"
    /\ lockOrder = <<"ThreadBar", "ThreadFoo">>
    /\ instances = <<"BAR">>
    /\ singleton_cout = <<Header, "BAR", "BAR", Newline, Newline>>

====
